---- MODULE Spec2Model ----
(***************************************************************************)
(* Model of debian-changelog-rs: the stateful lexer (src/src/lex.rs), the  *)
(* recursive-descent parser that builds a lossless green tree, the strict  *)
(* entry points ChangeLog::from_str and ChangeLog::read, the typed views   *)
(* and the Urgency conversions (src/src/parse.rs), and changes_sections    *)
(* and strip_for_commit_message (src/src/changes.rs).                      *)
(*                                                                         *)
(* Spec runs lexer, parser, from_str and read on a text; SpecUrgency,      *)
(* SpecSections and SpecStrip run the Urgency conversions,                 *)
(* changes_sections and strip_for_commit_message on their own inputs.      *)
(*                                                                         *)
(* A text is a sequence of one-character strings.  A token is a record    *)
(* [kind, text].  A tree node is a record [kind, leaf, text, children].    *)
(***************************************************************************)
EXTENDS Integers, Sequences, FiniteSets, TLC

\* Longest enumerated input text.
MaxLen == 4

\* The largest number of lines after the header of an entry without footer.
MaxBodyLines == 2

\* The longest list of lines handed to changes_sections.
MaxChanges == 4

\* The longest line and the longest list of lines handed to
\* strip_for_commit_message.
MaxLineLen == 2

MaxStripLines == 2

\* The longest string over UrgencyAlphabet handed to Urgency::from_str.
MaxUrgencyLen == 3

\* The characters the enumerated inputs are drawn from: one representative
\* of every class the lexer distinguishes.
Alphabet == {"a", "-", " ", "\t", "\n", "(", ")", ";", "=", "<", ">", "#"}

Min(S) == CHOOSE x \in S : \A y \in S : x <= y

(***************************************************************************)
(* Lexer character classes                                                 *)
(***************************************************************************)
is_whitespace(c) == c = " " \/ c = "\t"

is_newline(c) == c = "\n" \/ c = "\r"

\* The ASCII letters, lowercase and uppercase in the same order.
Lowercase ==
    <<"a", "b", "c", "d", "e", "f", "g", "h", "i", "j", "k", "l", "m",
      "n", "o", "p", "q", "r", "s", "t", "u", "v", "w", "x", "y", "z">>

Uppercase ==
    <<"A", "B", "C", "D", "E", "F", "G", "H", "I", "J", "K", "L", "M",
      "N", "O", "P", "Q", "R", "S", "T", "U", "V", "W", "X", "Y", "Z">>

Range(f) == {f[x] : x \in DOMAIN f}

Digits == {"0", "1", "2", "3", "4", "5", "6", "7", "8", "9"}

\* char::is_ascii_alphanumeric
AsciiAlphanumeric == Range(Lowercase) \cup Range(Uppercase) \cup Digits

is_valid_identifier_char(c) == c \in AsciiAlphanumeric \/ c = "-" \/ c = "."

is_space(c) == c = " "

is_version_char(c) == c # ")" /\ c # ";" /\ c # " " /\ ~is_newline(c)

is_detail_char(c) == ~is_newline(c)

is_dash(c) == c = "-"

is_email_char(c) == c # ">" /\ c # " " /\ ~is_newline(c)

is_text_char(c) == c # "<" /\ ~is_newline(c) /\ c # " "

\* Number of characters read_while consumes from text s after position p:
\* the length of the longest run of characters satisfying the predicate.
\* ok[i] tells whether the predicate holds of s[i].
read_while(s, p, ok) ==
    LET stops == {i \in (p + 1)..Len(s) : ~ok[i]}
    IN  IF stops = {} THEN Len(s) - p ELSE Min(stops) - p - 1

\* read_while_n stops as soon as n characters have been taken.
read_while_n(s, p, n, ok) ==
    LET m == read_while(s, p, ok)
    IN  IF m >= n THEN n ELSE m

Slice(s, p, n) == SubSeq(s, p + 1, p + n)

Tok(k, t) == [kind |-> k, text |-> t]

\* Result of one call of next_token: the token, the new region, the new
\* position, and whether the call aborted (unreachable!()).
Lexed(k, t, lt, p) == [tok |-> Tok(k, t), line_type |-> lt, pos |-> p, abort |-> FALSE]

LexAbort(lt, p) == [tok |-> Tok("ERROR", <<>>), line_type |-> lt, pos |-> p, abort |-> TRUE]

IndentArm(s, p, lt) ==
    LET n == read_while_n(s, p, 2, [i \in 1..Len(s) |-> is_space(s[i])])
    IN  IF n = 2 THEN Lexed("INDENT", Slice(s, p, n), "Body", p + n)
        ELSE IF n = 1 THEN Lexed("INDENT", Slice(s, p, n), "Footer", p + n)
        ELSE LexAbort(lt, p)

NewlineArm(s, p, lt) == Lexed("NEWLINE", Slice(s, p, 1), "None", p + 1)

\* A variant of the version arm that emits VERSION whether or not the run is
\* closed by ')'.
VersionArm_unclosed(s, p, lt) ==
    LET n == read_while(s, p, [i \in 1..Len(s) |-> is_version_char(s[i])])
    IN  IF p + n < Len(s)
        THEN Lexed("VERSION", Slice(s, p, n + 1), lt, p + n + 1)
        ELSE Lexed("VERSION", Slice(s, p, n), lt, p + n)

VersionArm(s, p, lt) ==
    LET n == read_while(s, p, [i \in 1..Len(s) |-> is_version_char(s[i])])
    IN  IF p + n < Len(s)
        THEN IF s[p + n + 1] = ")"
             THEN Lexed("VERSION", Slice(s, p, n + 1), lt, p + n + 1)
             ELSE Lexed("ERROR", Slice(s, p, n + 1), lt, p + n + 1)
        ELSE Lexed("ERROR", Slice(s, p, n), lt, p + n)

EmailArm(s, p, lt) ==
    LET n == read_while(s, p, [i \in 1..Len(s) |-> is_email_char(s[i])])
    IN  IF p + n < Len(s)
        THEN IF s[p + n + 1] = ">"
             THEN Lexed("EMAIL", Slice(s, p, n), lt, p + n + 1)
             ELSE Lexed("ERROR", Slice(s, p, n), lt, p + n + 1)
        ELSE Lexed("ERROR", Slice(s, p, n), lt, p + n)

FallbackArm(s, p, lt) == Lexed("ERROR", Slice(s, p, 1), lt, p + 1)

\* Lexer::next_token on text s at position p < Len(s) in region lt.
next_token(s, p, lt) ==
    LET c == s[p + 1]
    IN  IF lt \in {"None", "Header"} /\ is_valid_identifier_char(c)
        THEN LET n == read_while(s, p, [i \in 1..Len(s) |-> is_valid_identifier_char(s[i])])
             IN  Lexed("IDENTIFIER", Slice(s, p, n), "Header", p + n)
        ELSE IF lt = "None" /\ is_whitespace(c) THEN IndentArm(s, p, lt)
        ELSE IF is_newline(c) THEN NewlineArm(s, p, lt)
        ELSE IF c = ";" /\ lt = "Header" THEN Lexed("SEMICOLON", Slice(s, p, 1), lt, p + 1)
        ELSE IF c = "(" /\ lt = "Header" THEN VersionArm(s, p, lt)
        ELSE IF c = "=" /\ lt = "Header" THEN Lexed("EQUALS", Slice(s, p, 1), lt, p + 1)
        ELSE IF lt = "Body"
        THEN LET n == read_while(s, p, [i \in 1..Len(s) |-> is_detail_char(s[i])])
             IN  Lexed("DETAIL", Slice(s, p, n), lt, p + n)
        ELSE IF is_whitespace(c)
        THEN LET n == read_while(s, p, [i \in 1..Len(s) |-> is_whitespace(s[i])])
             IN  Lexed("WHITESPACE", Slice(s, p, n), lt, p + n)
        ELSE IF c = "-" /\ lt = "Footer"
        THEN LET n == read_while(s, p, [i \in 1..Len(s) |-> is_dash(s[i])])
             IN  Lexed("DASHES", Slice(s, p, n), lt, p + n)
        ELSE IF c = "<" /\ lt = "Footer" THEN EmailArm(s, p, lt)
        ELSE IF lt = "Footer" /\ ~is_whitespace(c) /\ ~is_newline(c)
        THEN LET n == read_while(s, p, [i \in 1..Len(s) |-> is_text_char(s[i])])
             IN  Lexed("TEXT", Slice(s, p, n), lt, p + n)
        ELSE FallbackArm(s, p, lt)

(***************************************************************************)
(* Green tree and builder (GreenNodeBuilder)                               *)
(***************************************************************************)
Leaf(k, t) == [kind |-> k, leaf |-> TRUE, text |-> t, children |-> <<>>]

Branch(k, cs) == [kind |-> k, leaf |-> FALSE, text |-> <<>>, children |-> cs]

NoNode == Leaf("NONE", <<>>)

EmptyBuilder == [parents |-> <<>>, children |-> <<>>]

Last(s) == s[Len(s)]

Front(s) == SubSeq(s, 1, Len(s) - 1)

\* The parser state the methods of Parser work on.  abort records a panic.
ParserState(toks, b, errs) == [tokens |-> toks, builder |-> b, errors |-> errs, abort |-> FALSE]

start_node(P, k) ==
    [P EXCEPT !.builder.parents =
        Append(@, [kind |-> k, first_child |-> Len(P.builder.children)])]

token(P, k, t) == [P EXCEPT !.builder.children = Append(@, Leaf(k, t))]

finish_node(P) ==
    LET top  == Last(P.builder.parents)
        cs   == P.builder.children
        node == Branch(top.kind, SubSeq(cs, top.first_child + 1, Len(cs)))
    IN  [P EXCEPT !.builder.parents = Front(@),
                  !.builder.children = Append(SubSeq(cs, 1, top.first_child), node)]

(***************************************************************************)
(* Parser methods                                                          *)
(***************************************************************************)
\* Option<SyntaxKind>: "None" stands for None, a kind k for Some(k).
current(P) == IF P.tokens = <<>> THEN "None" ELSE Last(P.tokens).kind

bump(P) ==
    LET t == Last(P.tokens)
    IN  token([P EXCEPT !.tokens = Front(@)], t.kind, t.text)

Msg(fmt, args) == [fmt |-> fmt, args |-> args]

\* A variant of error that records the message only when it consumed a token.
error_unrecorded(P, msg) ==
    LET p1 == start_node(P, "ERROR")
        p2 == IF current(p1) # "None"
              THEN [bump(p1) EXCEPT !.errors = Append(@, msg)]
              ELSE p1
    IN  finish_node(p2)

error(P, msg) ==
    LET p1 == start_node(P, "ERROR")
        p2 == IF current(p1) # "None" THEN bump(p1) ELSE p1
        p3 == [p2 EXCEPT !.errors = Append(@, msg)]
    IN  finish_node(p3)

expect(P, expected) ==
    IF current(P) # expected
    THEN error(P, Msg("expected {:?}, got {:?}", <<expected, current(P)>>))
    ELSE bump(P)

RECURSIVE skip_ws(_)
skip_ws(P) == IF current(P) = "WHITESPACE" THEN skip_ws(bump(P)) ELSE P

\* The loop of parse_entry_header that fills DISTRIBUTIONS.
RECURSIVE DistributionsLoop(_)
DistributionsLoop(P) ==
    LET p1 == skip_ws(P)
    IN  IF current(p1) = "IDENTIFIER" THEN DistributionsLoop(bump(p1))
        ELSE IF current(p1) = "SEMICOLON" THEN p1
        ELSE error(p1, Msg("expected distribution or semicolon", <<>>))

\* A variant of the metadata loop that breaks on a missing '=' or value
\* without closing METADATA_ENTRY.
RECURSIVE MetadataLoop_open(_)
MetadataLoop_open(P) ==
    LET p1 == skip_ws(P)
        p2 == start_node(p1, "METADATA_ENTRY")
        p3 == finish_node(bump(start_node(p2, "METADATA_KEY")))
        p4 == bump(p3)
        p5 == finish_node(bump(start_node(p4, "METADATA_VALUE")))
    IN  IF current(p1) = "NEWLINE" THEN p1
        ELSE IF current(p2) # "IDENTIFIER"
        THEN finish_node(error(p2, Msg("expected metadata key", <<>>)))
        ELSE IF current(p3) # "EQUALS"
        THEN error(p3, Msg("expected equals", <<>>))
        ELSE IF current(p4) # "IDENTIFIER"
        THEN error(p4, Msg("expected metadata value", <<>>))
        ELSE MetadataLoop_open(finish_node(p5))

\* The loop of parse_entry_header that fills METADATA after the semicolon.
RECURSIVE MetadataLoop(_)
MetadataLoop(P) ==
    LET p1 == skip_ws(P)
        p2 == start_node(p1, "METADATA_ENTRY")
        p3 == finish_node(bump(start_node(p2, "METADATA_KEY")))
        p4 == bump(p3)
        p5 == finish_node(bump(start_node(p4, "METADATA_VALUE")))
    IN  IF current(p1) = "NEWLINE" THEN p1
        ELSE IF current(p2) # "IDENTIFIER"
        THEN finish_node(error(p2, Msg("expected metadata key", <<>>)))
        ELSE IF current(p3) # "EQUALS"
        THEN finish_node(error(p3, Msg("expected equals", <<>>)))
        ELSE IF current(p4) # "IDENTIFIER"
        THEN finish_node(error(p4, Msg("expected metadata value", <<>>)))
        ELSE MetadataLoop(finish_node(p5))

parse_entry_header(P) ==
    LET p1 == start_node(P, "ENTRY_HEADER")
        p2 == expect(p1, "IDENTIFIER")
        p3 == skip_ws(p2)
        p4 == expect(p3, "VERSION")
        p5 == finish_node(DistributionsLoop(start_node(p4, "DISTRIBUTIONS")))
        p6 == start_node(p5, "METADATA")
        p7 == IF current(p6) = "SEMICOLON" THEN MetadataLoop(bump(p6))
              ELSE IF current(p6) = "NEWLINE" THEN p6
              ELSE error(p6, Msg("expected semicolon or newline", <<>>))
        p8 == finish_node(p7)
    IN  finish_node(expect(p8, "NEWLINE"))

\* A variant of parse_entry_detail that opens the branch with the kind of its
\* first token.
parse_entry_detail_indent(P) ==
    LET p1 == expect(start_node(P, "INDENT"), "INDENT")
        p2 == IF current(p1) = "DETAIL" THEN bump(p1)
              ELSE IF current(p1) = "NEWLINE" THEN p1
              ELSE error(p1, Msg("expected detail", <<>>))
    IN  finish_node(expect(p2, "NEWLINE"))

parse_entry_detail(P) ==
    LET p1 == expect(start_node(P, "ENTRY_BODY"), "INDENT")
        p2 == IF current(p1) = "DETAIL" THEN bump(p1)
              ELSE IF current(p1) = "NEWLINE" THEN p1
              ELSE error(p1, Msg("expected detail", <<>>))
    IN  finish_node(expect(p2, "NEWLINE"))

\* Parser::next: the kind of the token after the current one.  With a single
\* token left, tokens.len() - 2 underflows: a build with overflow checks
\* panics, a build without them wraps and get() finds nothing.
next(P) == IF Len(P.tokens) >= 2 THEN P.tokens[Len(P.tokens) - 1].kind ELSE "None"

nextPanics(P, overflow_checks) == Len(P.tokens) < 2 /\ overflow_checks

\* The loop of parse_entry_footer that fills MAINTAINER.
RECURSIVE MaintainerLoop(_, _)
MaintainerLoop(P, overflow_checks) ==
    IF current(P) = "TEXT" THEN MaintainerLoop(bump(P), overflow_checks)
    ELSE IF current(P) = "WHITESPACE"
    THEN IF nextPanics(P, overflow_checks) THEN [P EXCEPT !.abort = TRUE]
         ELSE IF next(P) # "EMAIL" THEN MaintainerLoop(bump(P), overflow_checks)
         ELSE P
    ELSE P

\* The loop of parse_entry_footer that fills TIMESTAMP.
RECURSIVE TimestampLoop(_)
TimestampLoop(P) ==
    IF current(P) # "TEXT" /\ current(P) # "WHITESPACE" THEN P
    ELSE TimestampLoop(bump(P))

FooterStart == <<" ", "-", "-", " ">>

BodyIndent == <<" ", " ">>

parse_entry_footer(P, overflow_checks) ==
    LET p1 == start_node(P, "ENTRY_FOOTER")
        p2 == IF current(p1) # "INDENT" THEN error(p1, Msg("expected indent", <<>>))
              ELSE IF Last(p1.tokens).text # FooterStart
              THEN error(p1, Msg("expected --", <<>>))
              ELSE bump(p1)
        p3 == MaintainerLoop(start_node(p2, "MAINTAINER"), overflow_checks)
        p4 == expect(expect(expect(finish_node(p3), "WHITESPACE"), "EMAIL"), "WHITESPACE")
        p5 == finish_node(TimestampLoop(start_node(p4, "TIMESTAMP")))
    IN  IF p3.abort THEN p3 ELSE finish_node(expect(p5, "NEWLINE"))

\* A variant of the loop of parse_entry that closes the entry at the end of
\* the tokens without a diagnostic.
EntryIteration_quiet(P, overflow_checks) ==
    IF P.tokens = <<>>
    THEN [p |-> P, brk |-> TRUE]
    ELSE IF Last(P.tokens).kind = "NEWLINE"
    THEN [p |-> finish_node(bump(start_node(P, "EMPTY_LINE"))), brk |-> FALSE]
    ELSE IF Last(P.tokens) = Tok("INDENT", BodyIndent)
    THEN [p |-> parse_entry_detail(P), brk |-> FALSE]
    ELSE IF Last(P.tokens) = Tok("INDENT", FooterStart)
    THEN [p |-> parse_entry_footer(P, overflow_checks), brk |-> TRUE]
    ELSE [p |-> P, brk |-> TRUE]

\* One iteration of the loop of parse_entry.  brk tells whether the loop is
\* left, in which case the ENTRY node is closed.
EntryIteration(P, overflow_checks) ==
    IF P.tokens = <<>>
    THEN [p |-> error(P, Msg("unexpected end of file", <<>>)), brk |-> TRUE]
    ELSE IF Last(P.tokens).kind = "NEWLINE"
    THEN [p |-> finish_node(bump(start_node(P, "EMPTY_LINE"))), brk |-> FALSE]
    ELSE IF Last(P.tokens) = Tok("INDENT", BodyIndent)
    THEN [p |-> parse_entry_detail(P), brk |-> FALSE]
    ELSE IF Last(P.tokens) = Tok("INDENT", FooterStart)
    THEN [p |-> parse_entry_footer(P, overflow_checks), brk |-> TRUE]
    ELSE [p |-> P, brk |-> TRUE]

\* One iteration of the loop of Parser::parse.  to is where control goes:
\* "root" (next iteration), "entry" (into the loop of parse_entry) or
\* "finish" (the loop is left).
RootIteration(P) ==
    IF current(P) = "None" THEN [p |-> P, to |-> "finish"]
    ELSE IF current(P) = "NEWLINE"
    THEN [p |-> finish_node(bump(start_node(P, "EMPTY_LINE"))), to |-> "root"]
    ELSE IF current(P) = "COMMENT" THEN [p |-> bump(P), to |-> "root"]
    ELSE IF current(P) = "IDENTIFIER"
    THEN [p |-> parse_entry_header(start_node(P, "ENTRY")), to |-> "entry"]
    ELSE [p |-> error(P, Msg("unexpected token {:?}", <<current(P)>>)), to |-> "finish"]

RECURSIVE Reverse(_)
Reverse(s) == IF s = <<>> THEN <<>> ELSE Append(Reverse(Tail(s)), Head(s))

\* ParseError and the Result of ChangeLog::from_str.
NoResult == [tag |-> "none", root |-> NoNode, err |-> <<>>]

Ok(root) == [tag |-> "Ok", root |-> root, err |-> <<>>]

Err(errs) == [tag |-> "Err", root |-> NoNode, err |-> errs]

\* A variant of from_str that ignores all diagnostics but the first.
from_str_first(green_node, errs) ==
    IF errs = <<>> THEN Ok(green_node) ELSE Err(<<Head(errs)>>)

from_str(green_node, errs) == IF errs = <<>> THEN Ok(green_node) ELSE Err(errs)

\* Option<String>; Panic stands for an accessor that aborts.
Some(v) == [tag |-> "Some", val |-> v]

None == [tag |-> "None", val |-> <<>>]

Panic == [tag |-> "panic", val |-> <<>>]

(***************************************************************************)
(* Urgency                                                                 *)
(***************************************************************************)
Variants == {"Low", "Medium", "High", "Emergency", "Critical"}

\* impl ToString for Urgency
urgency_to_string(u) ==
    CASE u = "Low" -> <<"l", "o", "w">>
      [] u = "Medium" -> <<"m", "e", "d", "i", "u", "m">>
      [] u = "High" -> <<"h", "i", "g", "h">>
      [] u = "Emergency" -> <<"e", "m", "e", "r", "g", "e", "n", "c", "y">>
      [] u = "Critical" -> <<"c", "r", "i", "t", "i", "c", "a", "l">>

\* char::to_lowercase on the characters of the model: the ASCII uppercase
\* letters change, every other character stays.
to_lowercase_char(c) ==
    IF c \in Range(Uppercase)
    THEN Lowercase[CHOOSE k \in 1..26 : Uppercase[k] = c]
    ELSE c

\* str::to_lowercase
to_lowercase(s) == [j \in 1..Len(s) |-> to_lowercase_char(s[j])]

\* Result<Urgency, ParseError>
UrgencyOk(u) == [tag |-> "Ok", value |-> u, err |-> <<>>]

UrgencyErr(s) == [tag |-> "Err", value |-> "none", err |-> <<Msg("invalid urgency: {}", <<s>>)>>]

\* A variant of Urgency::from_str that matches the string as it is written.
urgency_from_str_exact(s) ==
    IF s = <<"l", "o", "w">> THEN UrgencyOk("Low")
    ELSE IF s = <<"m", "e", "d", "i", "u", "m">> THEN UrgencyOk("Medium")
    ELSE IF s = <<"h", "i", "g", "h">> THEN UrgencyOk("High")
    ELSE IF s = <<"e", "m", "e", "r", "g", "e", "n", "c", "y">> THEN UrgencyOk("Emergency")
    ELSE IF s = <<"c", "r", "i", "t", "i", "c", "a", "l">> THEN UrgencyOk("Critical")
    ELSE UrgencyErr(s)

\* impl FromStr for Urgency
urgency_from_str(s) ==
    LET t == to_lowercase(s)
    IN  IF t = <<"l", "o", "w">> THEN UrgencyOk("Low")
        ELSE IF t = <<"m", "e", "d", "i", "u", "m">> THEN UrgencyOk("Medium")
        ELSE IF t = <<"h", "i", "g", "h">> THEN UrgencyOk("High")
        ELSE IF t = <<"e", "m", "e", "r", "g", "e", "n", "c", "y">> THEN UrgencyOk("Emergency")
        ELSE IF t = <<"c", "r", "i", "t", "i", "c", "a", "l">> THEN UrgencyOk("Critical")
        ELSE UrgencyErr(s)

\* A call of the Urgency conversions: the variant rendered (or "none"), the
\* string parsed and the result of the parse.
UrgencyCall(u, s, r) == [variant |-> u, s |-> s, ret |-> r]

NoUrgencyResult == [tag |-> "none", value |-> "none", err |-> <<>>]

NoUrgencyCall == UrgencyCall("none", <<>>, NoUrgencyResult)

(***************************************************************************)
(* changes.rs: changes_sections                                            *)
(***************************************************************************)
\* struct Section
Section(title, linenos, chs) == [title |-> title, linenos |-> linenos, changes |-> chs]

\* Section::default()
DefaultSection == Section(None, <<>>, <<>>)

\* An element (i, line) of a change.
ChangeLine(n, line) == [lineno |-> n, line |-> line]

\* Whether the regex ^\[ (.*) \]$ matches the line: "[ ", any characters but
\* a line feed, " ]", up to the end of the text.
is_author_header(line) ==
    /\ Len(line) >= 4
    /\ line[1] = "[" /\ line[2] = " "
    /\ line[Len(line) - 1] = " " /\ line[Len(line)] = "]"
    /\ \A j \in 3..(Len(line) - 2) : line[j] # "\n"

\* The capture group of the regex.
author_of(line) == SubSeq(line, 3, Len(line) - 2)

\* str::starts_with
starts_with(line, prefix) ==
    Len(line) >= Len(prefix) /\ SubSeq(line, 1, Len(prefix)) = prefix

\* The local variables of changes_sections.
SectionsState(r, sec, ch) == [ret |-> r, section |-> sec, change |-> ch]

\* A variant of the arm that leaves the pending change open across the header.
AuthorHeaderArm_open(st, n, line) ==
    SectionsState(IF st.section.linenos # <<>> THEN Append(st.ret, st.section) ELSE st.ret,
                  Section(Some(author_of(line)), <<n>>, <<>>),
                  st.change)

\* What changes_sections does on reading an author header at index n.
AuthorHeaderArm(st, n, line) ==
    LET sec == IF st.change # <<>>
               THEN [st.section EXCEPT !.changes = Append(@, st.change)]
               ELSE st.section
    IN  SectionsState(IF sec.linenos # <<>> THEN Append(st.ret, sec) ELSE st.ret,
                      Section(Some(author_of(line)), <<n>>, <<>>),
                      <<>>)

\* A variant of the body of the loop that also skips the blank lines after
\* index 0.
SectionsIteration_skip(st, n, line) ==
    IF line = <<>> THEN st
    ELSE IF is_author_header(line) THEN AuthorHeaderArm(st, n, line)
    ELSE IF ~starts_with(line, <<"*", " ">>)
    THEN [st EXCEPT !.change = Append(@, ChangeLine(n, line)),
                    !.section.linenos = Append(@, n)]
    ELSE [st EXCEPT !.section.changes = IF st.change # <<>> THEN Append(@, st.change) ELSE @,
                    !.change = <<ChangeLine(n, line)>>,
                    !.section.linenos = Append(@, n)]

\* The body of the loop of changes_sections for the line at index n.
SectionsIteration(st, n, line) ==
    IF line = <<>> /\ n = 0 THEN st
    ELSE IF line = <<>> THEN [st EXCEPT !.section.linenos = Append(@, n)]
    ELSE IF is_author_header(line) THEN AuthorHeaderArm(st, n, line)
    ELSE IF ~starts_with(line, <<"*", " ">>)
    THEN [st EXCEPT !.change = Append(@, ChangeLine(n, line)),
                    !.section.linenos = Append(@, n)]
    ELSE [st EXCEPT !.section.changes = IF st.change # <<>> THEN Append(@, st.change) ELSE @,
                    !.change = <<ChangeLine(n, line)>>,
                    !.section.linenos = Append(@, n)]

\* A variant of the end of changes_sections that closes the change and the
\* section whether or not they hold anything.
SectionsFinish_always(st) ==
    LET sec == [st.section EXCEPT !.changes = Append(@, st.change)]
    IN  SectionsState(Append(st.ret, sec), sec, st.change)

\* What changes_sections does after the loop.
SectionsFinish(st) ==
    LET sec == IF st.change # <<>>
               THEN [st.section EXCEPT !.changes = Append(@, st.change)]
               ELSE st.section
    IN  SectionsState(IF sec.linenos # <<>> THEN Append(st.ret, sec) ELSE st.ret, sec, st.change)

(***************************************************************************)
(* changes.rs: strip_for_commit_message                                    *)
(***************************************************************************)
\* char::is_whitespace on the characters of the model.
is_unicode_whitespace(c) == c \in {" ", "\t", "\n", "\r"}

\* line.trim().is_empty()
is_blank(line) == \A j \in 1..Len(line) : is_unicode_whitespace(line[j])

RECURSIVE pop_blank(_)
pop_blank(ls) == IF ls # <<>> /\ is_blank(Last(ls)) THEN pop_blank(Front(ls)) ELSE ls

RECURSIVE remove_blank(_)
remove_blank(ls) == IF ls # <<>> /\ is_blank(Head(ls)) THEN remove_blank(Tail(ls)) ELSE ls

\* A variant of the loop that removes one prefix only.
strip_indent_once(line) ==
    IF starts_with(line, <<" ", " ">>) THEN SubSeq(line, 3, Len(line))
    ELSE IF starts_with(line, <<"\t">>) THEN Tail(line)
    ELSE line

\* The loop that removes the prefixes "  " and "\t".
RECURSIVE strip_indent(_)
strip_indent(line) ==
    IF starts_with(line, <<" ", " ">>) THEN strip_indent(SubSeq(line, 3, Len(line)))
    ELSE IF starts_with(line, <<"\t">>) THEN strip_indent(Tail(line))
    ELSE line

\* str::trim_start
RECURSIVE trim_start(_)
trim_start(line) ==
    IF line # <<>> /\ is_unicode_whitespace(Head(line)) THEN trim_start(Tail(line)) ELSE line

\* The closure that drops the bullet point of a line.
drop_bullet(line) ==
    LET l == trim_start(line)
    IN  IF \/ starts_with(l, <<"*", " ">>)
           \/ starts_with(l, <<"+", " ">>)
           \/ starts_with(l, <<"-", " ">>)
        THEN trim_start(Tail(l))
        ELSE l

\* A variant of strip_for_commit_message that drops the bullets of every line.
strip_for_commit_message_always(ls) ==
    LET kept == remove_blank(pop_blank(ls))
    IN  [k \in 1..Len(kept) |-> drop_bullet(strip_indent(kept[k]))]

strip_for_commit_message(ls) ==
    LET kept     == remove_blank(pop_blank(ls))
        indented == [k \in 1..Len(kept) |-> strip_indent(kept[k])]
        bullet_points_dropped == [k \in 1..Len(indented) |-> drop_bullet(indented[k])]
    IN  IF ls = <<>> THEN <<>>
        ELSE IF Len(bullet_points_dropped) = 1 THEN bullet_points_dropped
        ELSE indented

(***************************************************************************)
(* Input texts                                                             *)
(***************************************************************************)
\* A well-formed entry: header, blank line, change line, blank line, footer.
\*   'ab (1.0) u; u=low\n\n  * c\n\n -- ab <a@b>  d, 01 -0\n'
SampleEntry ==
    <<"a", "b", " ", "(", "1", ".", "0", ")", " ", "u", ";", " ", "u", "=",
      "l", "o", "w", "\n", "\n", " ", " ", "*", " ", "c", "\n", "\n", " ",
      "-", "-", " ", "a", "b", " ", "<", "a", "@", "b", ">", " ", " ", "d",
      ",", " ", "0", "1", " ", "-", "0", "\n">>

\* A well-formed entry followed by a blank line and a comment line.
\*   'ab (1.0) u; u=low\n\n  * c\n\n -- ab <a@b>  d, 01 -0\n\n# c\n'
SampleEntryComment ==
    <<"a", "b", " ", "(", "1", ".", "0", ")", " ", "u", ";", " ", "u", "=",
      "l", "o", "w", "\n", "\n", " ", " ", "*", " ", "c", "\n", "\n", " ",
      "-", "-", " ", "a", "b", " ", "<", "a", "@", "b", ">", " ", " ", "d",
      ",", " ", "0", "1", " ", "-", "0", "\n", "\n", "#", " ", "c", "\n">>

\* An entry without footer.
\*   'ab (1.0) u; u=low\n\n  * c\n'
SampleNoFooter ==
    <<"a", "b", " ", "(", "1", ".", "0", ")", " ", "u", ";", " ", "u", "=",
      "l", "o", "w", "\n", "\n", " ", " ", "*", " ", "c", "\n">>

\* A header without metadata.
\*   'ab (1.0) u\n'
SampleNoMetadata ==
    <<"a", "b", " ", "(", "1", ".", "0", ")", " ", "u", "\n">>

\* A header with two metadata entries.
\*   'ab (1.0) u; u=low, b=1\n'
SampleTwoMetadata ==
    <<"a", "b", " ", "(", "1", ".", "0", ")", " ", "u", ";", " ", "u", "=",
      "l", "o", "w", ",", " ", "b", "=", "1", "\n">>

\* A comment line followed by a header.
\*   '# c\nab (1.0) u; u=low\n'
SampleCommentFirst ==
    <<"#", " ", "c", "\n", "a", "b", " ", "(", "1", ".", "0", ")", " ", "u",
      ";", " ", "u", "=", "l", "o", "w", "\n">>

\* An entry whose body is followed by a comment line.
\*   'ab (1.0) u; u=low\n  * c\n# c\n'
SampleBodyComment ==
    <<"a", "b", " ", "(", "1", ".", "0", ")", " ", "u", ";", " ", "u", "=",
      "l", "o", "w", "\n", " ", " ", "*", " ", "c", "\n", "#", " ", "c",
      "\n">>

\* A header whose urgency is one of the five levels.
\*   'ab (1.0) u; urgency=low\n'
SampleUrgency ==
    <<"a", "b", " ", "(", "1", ".", "0", ")", " ", "u", ";", " ", "u", "r",
      "g", "e", "n", "c", "y", "=", "l", "o", "w", "\n">>

\* A header whose urgency is none of the five levels.
\*   'ab (1.0) u; urgency=bogus\n'
SampleUnknownUrgency ==
    <<"a", "b", " ", "(", "1", ".", "0", ")", " ", "u", ";", " ", "u", "r",
      "g", "e", "n", "c", "y", "=", "b", "o", "g", "u", "s", "\n">>

\* A footer line with a date in the fixed format.
\*   ' -- ab <a@b>  Mon, 04 Sep 2023 18:13:45 -0500\n'
SampleDatedFooter ==
    <<" ", "-", "-", " ", "a", "b", " ", "<", "a", "@", "b", ">", " ", " ",
      "M", "o", "n", ",", " ", "0", "4", " ", "S", "e", "p", " ", "2", "0",
      "2", "3", " ", "1", "8", ":", "1", "3", ":", "4", "5", " ", "-", "0",
      "5", "0", "0", "\n">>

\* Headers whose metadata lacks the key, the '=' or the value.
\*   'ab (1.0) u; =low\n'   'ab (1.0) u; u\n'   'ab (1.0) u; u=\n'
SampleNoKey ==
    <<"a", "b", " ", "(", "1", ".", "0", ")", " ", "u", ";", " ", "=", "l",
      "o", "w", "\n">>

SampleNoEquals ==
    <<"a", "b", " ", "(", "1", ".", "0", ")", " ", "u", ";", " ", "u", "\n">>

SampleNoValue ==
    <<"a", "b", " ", "(", "1", ".", "0", ")", " ", "u", ";", " ", "u", "=",
      "\n">>

\* A header line alone.
\*   'ab (1.0) u; u=low\n'
SampleHeaderOnly ==
    <<"a", "b", " ", "(", "1", ".", "0", ")", " ", "u", ";", " ", "u", "=",
      "l", "o", "w", "\n">>

\* The lines that may follow a header: a blank line, a change line, an
\* indented line without text and a line indented by three spaces.
BodyLines ==
    {<<"\n">>,
     <<" ", " ", "*", " ", "c", "\n">>,
     <<" ", " ", "\n">>,
     <<" ", " ", " ", "c", "\n">>}

RECURSIVE Flatten(_)
Flatten(ls) == IF ls = <<>> THEN <<>> ELSE Head(ls) \o Flatten(Tail(ls))

\* Entries without footer: a header followed by up to MaxBodyLines lines.
FooterlessEntries ==
    {SampleHeaderOnly \o Flatten(ls) :
        ls \in UNION {[1..n -> BodyLines] : n \in 0..MaxBodyLines}}

\* An entry without footer followed by the header of another entry.
FollowedEntries == {e \o SampleHeaderOnly : e \in FooterlessEntries}

Samples ==
    FooterlessEntries \cup FollowedEntries \cup
    {SampleEntry,
     SampleDatedFooter,
     SampleNoKey,
     SampleNoEquals,
     SampleNoValue,
     SampleUrgency,
     SampleUnknownUrgency,
     SampleEntryComment,
     SampleNoFooter,
     SampleNoMetadata,
     SampleTwoMetadata,
     SampleCommentFirst,
     SampleBodyComment}

\* The strings handed to Urgency::from_str: every spelling of the five names
\* in upper and lower case, the short strings over a few letters and a
\* space, and a word that is no urgency.
to_uppercase_char(c) ==
    IF c \in Range(Lowercase)
    THEN Uppercase[CHOOSE k \in 1..26 : Lowercase[k] = c]
    ELSE c

Spellings(name) ==
    {[j \in 1..Len(name) |-> IF b[j] THEN to_uppercase_char(name[j]) ELSE name[j]] :
        b \in [1..Len(name) -> BOOLEAN]}

UrgencyAlphabet == {"l", "o", "w", "L", "O", " "}

UrgencyStrings ==
    UNION {Spellings(urgency_to_string(u)) : u \in Variants}
    \cup UNION {[1..n -> UrgencyAlphabet] : n \in 0..MaxUrgencyLen}
    \cup {<<"b", "o", "g", "u", "s">>}

\* The lines handed to changes_sections: a blank line, two author headers,
\* a line that only looks like one, a bullet line and a continuation line.
SectionLines ==
    {<<>>,
     <<"[", " ", "A", " ", "]">>,
     <<"[", " ", "B", " ", "]">>,
     <<"[", " ", "]">>,
     <<"*", " ", "c">>,
     <<" ", " ", "r">>}

\* The list of changes_sections_tests::test_with_header, with shorter lines.
\*   ['', '[ A ]', '* c', '', '[ B ]', '* c', '  r', '']
SampleWithHeader ==
    <<<<>>,
      <<"[", " ", "A", " ", "]">>,
      <<"*", " ", "c">>,
      <<>>,
      <<"[", " ", "B", " ", "]">>,
      <<"*", " ", "c">>,
      <<" ", " ", "r">>,
      <<>>>>

SectionInputs ==
    UNION {[1..n -> SectionLines] : n \in 0..MaxChanges} \cup {SampleWithHeader}

\* The lines handed to strip_for_commit_message: every line of up to
\* MaxLineLen characters over space, tab, a bullet and a letter.
StripAlphabet == {" ", "\t", "*", "a"}

StripLines == UNION {[1..n -> StripAlphabet] : n \in 0..MaxLineLen}

\* Lists of strip_for_commit_message_tests, with shorter words.
\*   ['*  a', '   b']   ['+ a']   ['- a']   ['* a', 'b', '* c']
SampleStripTwo == <<<<"*", " ", " ", "a">>, <<" ", " ", " ", "b">>>>

SampleStripPlus == <<<<"+", " ", "a">>>>

SampleStripMinus == <<<<"-", " ", "a">>>>

SampleStripThree == <<<<"*", " ", "a">>, <<"b">>, <<"*", " ", "c">>>>

\* A line with two bullets.
\*   ['* * a']
SampleStripNested == <<<<"*", " ", "*", " ", "a">>>>

\* Indented lines: a tab before a bullet, and two levels of indentation.
\*   ['\t* a', '  b']   ['\t\ta', 'b']   ['    * a']
SampleStripTab == <<<<"\t", "*", " ", "a">>, <<" ", " ", "b">>>>

SampleStripDeep == <<<<"\t", "\t", "a">>, <<"b">>>>

SampleStripDeepBullet == <<<<" ", " ", " ", " ", "*", " ", "a">>>>

StripInputs ==
    UNION {[1..n -> StripLines] : n \in 0..MaxStripLines}
    \cup {SampleStripTwo, SampleStripPlus, SampleStripMinus, SampleStripThree,
          SampleStripNested, SampleStripTab, SampleStripDeep, SampleStripDeepBullet}

BoundedTexts == UNION {[1..n -> Alphabet] : n \in 0..MaxLen}

Inputs == BoundedTexts \cup Samples

(***************************************************************************)
(* State                                                                   *)
(***************************************************************************)
VARIABLES
    input,       \* the text handed to from_str
    pos,         \* Lexer.input: number of characters consumed
    line_type,   \* Lexer.line_type
    lexed,       \* the tokens collected by lex so far
    pc,          \* where control is: lex, root, entry, finish, parsed, done, read,
                 \* panic, unwrap_panic; to_string, from_str, urgency_done;
                 \* sections, sections_done; strip, stripped, restripped
    tokens,      \* Parser.tokens, in reverse order
    builder,     \* Parser.builder
    errors,      \* Parser.errors
    green_node,  \* Parse.green_node
    result,      \* what from_str returned
    conversion,  \* a call of Urgency::to_string / Urgency::from_str
    changes,     \* the lines handed to changes_sections / strip_for_commit_message
    lineno,      \* changes_sections: the index i of the line to read next
    ret,         \* changes_sections: ret
    section,     \* changes_sections: section
    change,      \* changes_sections: change
    stripped     \* what strip_for_commit_message returned

vars ==
    <<input, pos, line_type, lexed, pc, tokens, builder, errors, green_node, result,
      conversion, changes, lineno, ret, section, change, stripped>>

\* The state of the functions of changes.rs and of Urgency.
sectionvars == <<changes, lineno, ret, section, change>>

auxvars == <<conversion, sectionvars, stripped>>

\* The state of lexer, parser and from_str.
corevars == <<input, pos, line_type, lexed, tokens, builder, errors, green_node, result>>

lexvars == <<pos, line_type, lexed>>

parsevars == <<tokens, builder, errors>>

\* Nothing of changes.rs has been called.
IdleChanges ==
    /\ changes = <<>>
    /\ lineno = 0
    /\ ret = <<>>
    /\ section = DefaultSection
    /\ change = <<>>
    /\ stripped = <<>>

\* Nothing of changes.rs or Urgency has been called.
IdleAux ==
    /\ conversion = NoUrgencyCall
    /\ changes = <<>>
    /\ lineno = 0
    /\ ret = <<>>
    /\ section = DefaultSection
    /\ change = <<>>
    /\ stripped = <<>>

\* The lexer and the parser on the text s, before the first step.
StartCore(s) ==
    /\ input = s
    /\ pos = 0
    /\ line_type = "None"
    /\ lexed = <<>>
    /\ tokens = <<>>
    /\ builder = EmptyBuilder
    /\ errors = <<>>
    /\ green_node = NoNode
    /\ result = NoResult

Init ==
    /\ \E s \in Inputs : StartCore(s)
    /\ pc = "lex"
    /\ IdleAux

Self == ParserState(tokens, builder, errors)

Store(P) ==
    /\ tokens' = P.tokens
    /\ builder' = P.builder
    /\ errors' = P.errors

\* One call of Lexer::next_token by the collect() of lex.
LexStep ==
    /\ pc = "lex"
    /\ pos < Len(input)
    /\ LET r == next_token(input, pos, line_type)
       IN  IF r.abort
           THEN /\ pc' = "panic"
                /\ UNCHANGED lexvars
           ELSE /\ lexed' = Append(lexed, r.tok)
                /\ pos' = r.pos
                /\ line_type' = r.line_type
                /\ pc' = pc
    /\ UNCHANGED <<input, parsevars, green_node, result, auxvars>>

\* next_token returned None: lex returns, parse reverses the tokens, builds
\* the Parser and Parser::parse opens ROOT.
ParseStart ==
    /\ pc = "lex"
    /\ pos = Len(input)
    /\ Store(start_node(ParserState(Reverse(lexed), EmptyBuilder, <<>>), "ROOT"))
    /\ pc' = "root"
    /\ UNCHANGED <<input, lexvars, green_node, result, auxvars>>

\* One iteration of the loop of Parser::parse.
ParseRootStep ==
    /\ pc = "root"
    /\ LET r == RootIteration(Self)
       IN  /\ Store(r.p)
           /\ pc' = r.to
    /\ UNCHANGED <<input, lexvars, green_node, result, auxvars>>

\* One iteration of the loop of parse_entry; leaving the loop closes ENTRY.
ParseEntryStep ==
    /\ pc = "entry"
    /\ \E overflow_checks \in BOOLEAN :
         LET r == EntryIteration(Self, overflow_checks)
         IN  IF r.p.abort
             THEN /\ pc' = "panic"
                  /\ UNCHANGED parsevars
             ELSE IF r.brk
             THEN /\ Store(finish_node(r.p))
                  /\ pc' = "root"
             ELSE /\ Store(r.p)
                  /\ pc' = "entry"
    /\ UNCHANGED <<input, lexvars, green_node, result, auxvars>>

\* The end of Parser::parse: ROOT is closed and the builder hands out the
\* tree (GreenNodeBuilder::finish requires exactly one finished node).
ParseFinish ==
    /\ pc = "finish"
    /\ LET p == finish_node(Self)
       IN  /\ Store(p)
           /\ IF Len(p.builder.children) = 1 /\ p.builder.parents = <<>>
              THEN /\ green_node' = p.builder.children[1]
                   /\ pc' = "parsed"
              ELSE /\ green_node' = green_node
                   /\ pc' = "panic"
    /\ UNCHANGED <<input, lexvars, result, auxvars>>

\* ChangeLog::from_str looks at the diagnostics of the Parse.
FromStr ==
    /\ pc = "parsed"
    /\ result' = from_str(green_node, errors)
    /\ pc' = "done"
    /\ UNCHANGED <<input, lexvars, parsevars, green_node, auxvars>>

\* ChangeLog::read, once the text is read and parsed: the Result of
\* buf.parse() is unwrapped, which panics on Err.
Read ==
    /\ pc = "done"
    /\ pc' = IF result.tag = "Ok" THEN "read" ELSE "unwrap_panic"
    /\ UNCHANGED <<corevars, auxvars>>

Next ==
    \/ LexStep
    \/ ParseStart
    \/ ParseRootStep
    \/ ParseEntryStep
    \/ ParseFinish
    \/ FromStr
    \/ Read

Spec == Init /\ [][Next]_vars

(***************************************************************************)
(* The Urgency conversions                                                 *)
(***************************************************************************)
\* Either a level is rendered and the string parsed back, or a string is
\* parsed.
InitUrgency ==
    /\ StartCore(<<>>)
    /\ IdleChanges
    /\ \/ /\ pc = "to_string"
          /\ \E u \in Variants : conversion = UrgencyCall(u, <<>>, NoUrgencyResult)
       \/ /\ pc = "from_str"
          /\ \E s \in UrgencyStrings : conversion = UrgencyCall("none", s, NoUrgencyResult)

\* Urgency::to_string
UrgencyToString ==
    /\ pc = "to_string"
    /\ conversion' = [conversion EXCEPT !.s = urgency_to_string(conversion.variant)]
    /\ pc' = "from_str"
    /\ UNCHANGED <<corevars, sectionvars, stripped>>

\* Urgency::from_str
UrgencyFromStr ==
    /\ pc = "from_str"
    /\ conversion' = [conversion EXCEPT !.ret = urgency_from_str(conversion.s)]
    /\ pc' = "urgency_done"
    /\ UNCHANGED <<corevars, sectionvars, stripped>>

NextUrgency ==
    \/ UrgencyToString
    \/ UrgencyFromStr

SpecUrgency == InitUrgency /\ [][NextUrgency]_vars

(***************************************************************************)
(* changes_sections as a loop                                              *)
(***************************************************************************)
InitSections ==
    /\ StartCore(<<>>)
    /\ conversion = NoUrgencyCall
    /\ pc = "sections"
    /\ changes \in SectionInputs
    /\ lineno = 0
    /\ ret = <<>>
    /\ section = DefaultSection
    /\ change = <<>>
    /\ stripped = <<>>

\* One iteration of the loop over changes.enumerate().
SectionsStep ==
    /\ pc = "sections"
    /\ lineno < Len(changes)
    /\ LET st == SectionsIteration(SectionsState(ret, section, change), lineno, changes[lineno + 1])
       IN  /\ ret' = st.ret
           /\ section' = st.section
           /\ change' = st.change
    /\ lineno' = lineno + 1
    /\ UNCHANGED <<corevars, pc, conversion, changes, stripped>>

\* The iterator is exhausted: the pending change and section are closed and
\* ret is returned.
SectionsReturn ==
    /\ pc = "sections"
    /\ lineno = Len(changes)
    /\ LET st == SectionsFinish(SectionsState(ret, section, change))
       IN  /\ ret' = st.ret
           /\ section' = st.section
           /\ change' = st.change
    /\ pc' = "sections_done"
    /\ UNCHANGED <<corevars, conversion, changes, lineno, stripped>>

NextSections ==
    \/ SectionsStep
    \/ SectionsReturn

SpecSections == InitSections /\ [][NextSections]_vars

(***************************************************************************)
(* strip_for_commit_message, called on a list and again on its result      *)
(***************************************************************************)
InitStrip ==
    /\ StartCore(<<>>)
    /\ conversion = NoUrgencyCall
    /\ pc = "strip"
    /\ changes \in StripInputs
    /\ lineno = 0
    /\ ret = <<>>
    /\ section = DefaultSection
    /\ change = <<>>
    /\ stripped = <<>>

\* strip_for_commit_message(changes)
Strip ==
    /\ pc = "strip"
    /\ stripped' = strip_for_commit_message(changes)
    /\ pc' = "stripped"
    /\ UNCHANGED <<corevars, conversion, sectionvars>>

\* The result is handed to strip_for_commit_message once more.
StripAgain ==
    /\ pc = "stripped"
    /\ changes' = stripped
    /\ stripped' = strip_for_commit_message(stripped)
    /\ pc' = "restripped"
    /\ UNCHANGED <<corevars, conversion, lineno, ret, section, change>>

NextStrip ==
    \/ Strip
    \/ StripAgain

SpecStrip == InitStrip /\ [][NextStrip]_vars

(***************************************************************************)
(* Observations on trees and token lists                                   *)
(***************************************************************************)
RECURSIVE Concat(_)
Concat(ss) == IF ss = <<>> THEN <<>> ELSE Head(ss) \o Concat(Tail(ss))

\* SyntaxNode::text: the leaf texts in depth-first left-to-right order.
RECURSIVE TreeText(_)
TreeText(n) ==
    IF n.leaf THEN n.text
    ELSE Concat([i \in 1..Len(n.children) |-> TreeText(n.children[i])])

TokenTexts(ts) == Concat([i \in 1..Len(ts) |-> ts[i].text])
\* The leaves of a tree as tokens, in depth-first left-to-right order.
RECURSIVE TreeLeaves(_)
TreeLeaves(n) ==
    IF n.leaf THEN <<Tok(n.kind, n.text)>>
    ELSE Concat([i \in 1..Len(n.children) |-> TreeLeaves(n.children[i])])

\* The branch nodes of a tree, the tree itself included.
RECURSIVE TreeBranches(_)
TreeBranches(n) ==
    IF n.leaf THEN {}
    ELSE {n} \cup UNION {TreeBranches(n.children[i]) : i \in 1..Len(n.children)}

\* The leaf nodes of a tree.
RECURSIVE LeafNodes(_)
LeafNodes(n) ==
    IF n.leaf THEN {n}
    ELSE UNION {LeafNodes(n.children[i]) : i \in 1..Len(n.children)}

\* Number of branch nodes of kind k in a tree.
RECURSIVE CountBranches(_, _)
RECURSIVE SumCount(_, _)
SumCount(cs, k) == IF cs = <<>> THEN 0 ELSE CountBranches(Head(cs), k) + SumCount(Tail(cs), k)

CountBranches(n, k) ==
    IF n.leaf THEN 0
    ELSE (IF n.kind = k THEN 1 ELSE 0) + SumCount(n.children, k)

\* The nodes the builder holds: finished ones, whole.
BuilderBranches(b) == UNION {TreeBranches(b.children[i]) : i \in 1..Len(b.children)}

(***************************************************************************)
(* Token kinds (the SyntaxKind enum)                                       *)
(***************************************************************************)
LexicalKinds ==
    {"IDENTIFIER", "WHITESPACE", "NEWLINE", "INDENT", "VERSION", "SEMICOLON",
     "EQUALS", "DETAIL", "DASHES", "EMAIL", "TEXT", "COMMENT", "ERROR"}

NodalKinds ==
    {"ROOT", "ENTRY", "ENTRY_HEADER", "DISTRIBUTIONS", "METADATA",
     "METADATA_ENTRY", "METADATA_KEY", "METADATA_VALUE", "ENTRY_BODY",
     "ENTRY_FOOTER", "MAINTAINER", "TIMESTAMP", "EMPTY_LINE"}

(***************************************************************************)
(* Typed views                                                             *)
(***************************************************************************)
\* children().find(kind): the first child that is a branch of kind k.
ChildNodes(n, k) == {i \in 1..Len(n.children) : ~n.children[i].leaf /\ n.children[i].kind = k}

\* children_with_tokens().find(kind): the first child that is a leaf of kind k.
ChildTokens(n, k) == {i \in 1..Len(n.children) : n.children[i].leaf /\ n.children[i].kind = k}

\* ChangeLog::entries
IsEntry(n) == ~n.leaf /\ n.kind = "ENTRY"

entries(root) == SelectSeq(root.children, IsEntry)

\* Entry::footer, with NoNode for None.
footer(entry) ==
    IF ChildNodes(entry, "ENTRY_FOOTER") = {} THEN NoNode
    ELSE entry.children[Min(ChildNodes(entry, "ENTRY_FOOTER"))]

\* EntryFooter::email: text[1..text.len() - 1] of the first EMAIL token.
footer_email(f) ==
    IF ChildTokens(f, "EMAIL") = {} THEN None
    ELSE LET text == f.children[Min(ChildTokens(f, "EMAIL"))].text
         IN  IF Len(text) < 2 THEN Panic ELSE Some(SubSeq(text, 2, Len(text) - 1))

\* EntryFooter::maintainer
footer_maintainer(f) ==
    IF ChildNodes(f, "MAINTAINER") = {} THEN None
    ELSE Some(TreeText(f.children[Min(ChildNodes(f, "MAINTAINER"))]))

\* EntryFooter::timestamp
footer_timestamp(f) ==
    IF ChildNodes(f, "TIMESTAMP") = {} THEN None
    ELSE Some(TreeText(f.children[Min(ChildNodes(f, "TIMESTAMP"))]))

\* Entry::email, Entry::maintainer, Entry::timestamp
email(entry) == IF footer(entry) = NoNode THEN None ELSE footer_email(footer(entry))

maintainer(entry) == IF footer(entry) = NoNode THEN None ELSE footer_maintainer(footer(entry))

timestamp(entry) == IF footer(entry) = NoNode THEN None ELSE footer_timestamp(footer(entry))

\* Entry::header, with NoNode for None.
header(entry) ==
    IF ChildNodes(entry, "ENTRY_HEADER") = {} THEN NoNode
    ELSE entry.children[Min(ChildNodes(entry, "ENTRY_HEADER"))]

IsMetadataEntry(n) == ~n.leaf /\ n.kind = "METADATA_ENTRY"

\* EntryHeader::metadata_node: the METADATA_ENTRY children of the first
\* METADATA child.
metadata_node(h) ==
    IF ChildNodes(h, "METADATA") = {} THEN <<>>
    ELSE SelectSeq(h.children[Min(ChildNodes(h, "METADATA"))].children, IsMetadataEntry)

\* MetadataEntry::key
key(m) ==
    IF ChildNodes(m, "METADATA_KEY") = {} THEN None
    ELSE Some(TreeText(m.children[Min(ChildNodes(m, "METADATA_KEY"))]))

\* MetadataEntry::value
value(m) ==
    IF ChildNodes(m, "METADATA_VALUE") = {} THEN None
    ELSE Some(TreeText(m.children[Min(ChildNodes(m, "METADATA_VALUE"))]))

HasKeyAndValue(m) == key(m) # None /\ value(m) # None

\* EntryHeader::metadata: the (key, value) pairs of the entries that have both.
metadata(h) ==
    LET both == SelectSeq(metadata_node(h), HasKeyAndValue)
    IN  [k \in 1..Len(both) |-> <<key(both[k]).val, value(both[k]).val>>]

\* EntryHeader::urgency: the value of the first pair whose key is "urgency",
\* parsed and unwrapped.
header_urgency(h) ==
    LET found == {k \in 1..Len(metadata(h)) :
                     metadata(h)[k][1] = <<"u", "r", "g", "e", "n", "c", "y">>}
    IN  IF found = {} THEN None
        ELSE LET r == urgency_from_str(metadata(h)[Min(found)][2])
             IN  IF r.tag = "Ok" THEN Some(r.value) ELSE Panic

\* EntryHeader::version, up to the text handed to the version parser: the
\* slice text[1..text.len() - 1] of the first VERSION token.
header_version(h) ==
    IF ChildTokens(h, "VERSION") = {} THEN None
    ELSE LET text == h.children[Min(ChildTokens(h, "VERSION"))].text
         IN  IF Len(text) < 2 THEN Panic ELSE Some(SubSeq(text, 2, Len(text) - 1))

\* Entry::version
version(entry) == IF header(entry) = NoNode THEN None ELSE header_version(header(entry))

\* EntryHeader::package: the text of the first IDENTIFIER token.
header_package(h) ==
    IF ChildTokens(h, "IDENTIFIER") = {} THEN None
    ELSE Some(h.children[Min(ChildTokens(h, "IDENTIFIER"))].text)

\* Entry::package
package(entry) == IF header(entry) = NoNode THEN None ELSE header_package(header(entry))

IsIdentifier(n) == n.leaf /\ n.kind = "IDENTIFIER"

\* EntryHeader::distributions: the texts of the IDENTIFIER tokens of the
\* first DISTRIBUTIONS child.
header_distributions(h) ==
    IF ChildNodes(h, "DISTRIBUTIONS") = {} THEN None
    ELSE LET ids == SelectSeq(h.children[Min(ChildNodes(h, "DISTRIBUTIONS"))].children,
                              IsIdentifier)
         IN  Some([k \in 1..Len(ids) |-> ids[k].text])

\* Entry::distributions
distributions(entry) ==
    IF header(entry) = NoNode THEN None ELSE header_distributions(header(entry))

IsDetail(n) == n.leaf /\ n.kind = "DETAIL"

\* EntryBody::text: the DETAIL tokens of the node, concatenated.
body_text(b) ==
    LET ds == SelectSeq(b.children, IsDetail)
    IN  Concat([k \in 1..Len(ds) |-> ds[k].text])

IsBody(n) == ~n.leaf /\ n.kind = "ENTRY_BODY"

IsBodyOrEmptyLine(n) == ~n.leaf /\ n.kind \in {"ENTRY_BODY", "EMPTY_LINE"}

\* A variant of Entry::change_lines that passes over the EMPTY_LINE children.
change_lines_bodies(entry) ==
    LET ns == SelectSeq(entry.children, IsBody)
    IN  [k \in 1..Len(ns) |-> body_text(ns[k])]

\* Entry::change_lines: the text of each ENTRY_BODY child and the empty
\* string for each EMPTY_LINE child, in order.
change_lines(entry) ==
    LET ns == SelectSeq(entry.children, IsBodyOrEmptyLine)
    IN  [k \in 1..Len(ns) |-> IF ns[k].kind = "ENTRY_BODY" THEN body_text(ns[k]) ELSE <<>>]

\* Entry::urgency
urgency(entry) == IF header(entry) = NoNode THEN None ELSE header_urgency(header(entry))

(***************************************************************************)
(* Properties                                                              *)
(***************************************************************************)
Returned == pc \in {"parsed", "done"}

Parsing == pc \in {"root", "entry", "finish", "parsed", "done"}

\* C1: lossless round trip.  Whenever parse has returned, the leaf texts of
\* the tree, concatenated depth-first left to right, are the input text.
C1_Lossless == Returned => TreeText(green_node) = input

\* C2: the lexer leaves no gaps.  The texts of the tokens emitted so far
\* concatenate to the prefix of the input the lexer has consumed.
C2_NoGaps == TokenTexts(lexed) = SubSeq(input, 1, pos)

\* C3: totality and progress.  The lexer never aborts, and on non-empty
\* remaining input the next lexer step emits a token and consumes at least
\* one character.
C3_TotalProgress ==
    /\ pc # "panic"
    /\ (pc = "lex" /\ pos < Len(input)) =>
          LET r == next_token(input, pos, line_type)
          IN  ~r.abort /\ r.pos > pos

\* C4: the parser stops only when the token stream is exhausted.  When
\* Parser::parse has returned its token stack is empty and the leaves of the
\* tree are exactly the tokens the lexer produced.
C4_StopsWhenExhausted ==
    Returned => tokens = <<>> /\ TreeLeaves(green_node) = lexed

\* The footer fields written in SampleEntry.
SampleMaintainer == <<"a", "b">>

SampleEmail == <<"a", "@", "b">>

SampleTimestamp == <<"d", ",", " ", "0", "1", " ", "-", "0">>

\* C5: a well-formed entry parses cleanly.  For the well-formed sample entry
\* parse records no diagnostic, the tree has one ENTRY with an ENTRY_FOOTER
\* starting with the " -- " token, and maintainer(), email() and timestamp()
\* return the name, the address and the date of the footer.
C5_WellFormedEntry ==
    (Returned /\ input = SampleEntry) =>
        /\ errors = <<>>
        /\ Len(entries(green_node)) = 1
        /\ LET e == entries(green_node)[1]
           IN  /\ footer(e) # NoNode
               /\ footer(e).children # <<>>
               /\ footer(e).children[1] = Leaf("INDENT", FooterStart)
               /\ maintainer(e) = Some(SampleMaintainer)
               /\ email(e) = Some(SampleEmail)
               /\ timestamp(e) = Some(SampleTimestamp)

\* A text that is one line beginning with '#'.
IsCommentLine(s) ==
    /\ s # <<>>
    /\ s[1] = "#"
    /\ \A i \in 1..(Len(s) - 1) : ~is_newline(s[i])

\* The line of a text: the text without its final newline character.
WithoutNewline(s) == IF s # <<>> /\ is_newline(Last(s)) THEN Front(s) ELSE s

\* C6: a '#' line at root level is a comment.  For an input that is one
\* line beginning with '#', the first child of ROOT is a COMMENT token
\* holding the line and no diagnostic is recorded.
C6_CommentLine ==
    (Returned /\ IsCommentLine(input)) =>
        /\ errors = <<>>
        /\ green_node.kind = "ROOT"
        /\ green_node.children # <<>>
        /\ green_node.children[1].leaf
        /\ green_node.children[1].kind = "COMMENT"
        /\ green_node.children[1].text \in {input, WithoutNewline(input)}

\* C7: strict parsing fails exactly when there are diagnostics.  from_str
\* returns Ok(root of the parse) iff no diagnostic was recorded, and
\* otherwise Err with exactly the recorded diagnostics, in order.
C7_StrictIffDiagnostics ==
    pc = "done" =>
        /\ result.tag \in {"Ok", "Err"}
        /\ result.tag = "Ok" <=> Len(errors) = 0
        /\ result.tag = "Ok" => result.root = green_node
        /\ result.tag = "Err" =>
              /\ Len(result.err) = Len(errors)
              /\ \A i \in 1..Len(errors) : result.err[i] = errors[i]

\* C7 witness: strict parsing has failed with several diagnostics.
C7_Witness == pc = "done" /\ result.tag = "Err" /\ Len(errors) >= 2

\* C8: diagnostics and ERROR nodes stay in step.  In every state of the
\* parser the number of diagnostics is the number of ERROR branches, no
\* ERROR branch is open, and every ERROR branch holds exactly one token, or
\* none only when the token stream is exhausted.
C8_ErrorsInStep ==
    Parsing =>
        /\ Len(errors) = SumCount(builder.children, "ERROR")
        /\ \A i \in 1..Len(builder.parents) : builder.parents[i].kind # "ERROR"
        /\ \A e \in BuilderBranches(builder) :
              e.kind = "ERROR" =>
                 /\ Len(e.children) <= 1
                 /\ Len(e.children) = 1 => e.children[1].leaf
                 /\ Len(e.children) = 0 => tokens = <<>>

\* C8 witness: the parser has recorded several errors, one that consumed a
\* token and one at the end of the token stream.
C8_Witness ==
    /\ Parsing
    /\ Len(errors) >= 2
    /\ \E e \in BuilderBranches(builder) : e.kind = "ERROR" /\ Len(e.children) = 1
    /\ \E e \in BuilderBranches(builder) : e.kind = "ERROR" /\ e.children = <<>>

\* C9 as stated: every branch of the returned tree has a nodal kind and
\* every leaf a lexical kind, ERROR being a lexical kind only.
C9_KindsDisjoint ==
    Returned =>
        /\ \A b \in TreeBranches(green_node) : b.kind \in NodalKinds
        /\ \A l \in LeafNodes(green_node) : l.kind \in LexicalKinds

\* C9 (amended): every branch of the returned tree has a nodal kind or is an
\* ERROR branch, every leaf has a lexical kind, and ERROR is the only kind
\* that labels both a branch and a leaf.
C9_KindsDisjointButError ==
    Returned =>
        /\ \A b \in TreeBranches(green_node) : b.kind \in NodalKinds \cup {"ERROR"}
        /\ \A l \in LeafNodes(green_node) : l.kind \in LexicalKinds
        /\ \A b \in TreeBranches(green_node) : \A l \in LeafNodes(green_node) :
              b.kind = l.kind => b.kind = "ERROR"

\* C9 witness: a returned tree in which ERROR labels a branch and a leaf,
\* next to an entry with body.
C9_Witness ==
    /\ Returned
    /\ \E b \in TreeBranches(green_node) : b.kind = "ERROR"
    /\ \E l \in LeafNodes(green_node) : l.kind = "ERROR"
    /\ \E b \in TreeBranches(green_node) : b.kind = "ENTRY_BODY"

\* C10: region reset at line start.  At the start of the input and right
\* after a consumed newline character the region is None, and a newline
\* character only ever occurs as a NEWLINE token of its own.
C10_RegionReset ==
    /\ (pos = 0 \/ (pos > 0 /\ is_newline(input[pos]))) => line_type = "None"
    /\ \A i \in 1..Len(lexed) :
          (\E j \in 1..Len(lexed[i].text) : is_newline(lexed[i].text[j])) =>
              lexed[i].kind = "NEWLINE" /\ Len(lexed[i].text) = 1


\* C11: Entry.urgency() does not crash on an urgency value that is none of
\* the five levels.  Whenever parse has returned, urgency() of every entry
\* of the tree returns (Some or None).
C11_UrgencyNoCrash ==
    Returned =>
        \A k \in 1..Len(entries(green_node)) : urgency(entries(green_node)[k]).tag # "panic"

\* The lowercase name of a level.
LevelName ==
    [Low |-> <<"l", "o", "w">>,
     Medium |-> <<"m", "e", "d", "i", "u", "m">>,
     High |-> <<"h", "i", "g", "h">>,
     Emergency |-> <<"e", "m", "e", "r", "g", "e", "n", "c", "y">>,
     Critical |-> <<"c", "r", "i", "t", "i", "c", "a", "l">>]

\* Two strings that differ at most in the case of their ASCII letters.
SameIgnoringCase(a, b) ==
    /\ Len(a) = Len(b)
    /\ \A j \in 1..Len(a) :
          \/ a[j] = b[j]
          \/ \E k \in 1..26 : {a[j], b[j]} = {Lowercase[k], Uppercase[k]}

\* C12: urgency round trip.  Rendering a level gives its lowercase name and
\* parsing that string gives the level back; a string parses to a level
\* exactly when it is the name of that level in any mix of upper and lower
\* case, and every other string gives an error result.
C12_UrgencyRoundTrip ==
    pc = "urgency_done" =>
        /\ conversion.variant # "none" =>
              /\ conversion.s = LevelName[conversion.variant]
              /\ conversion.ret = UrgencyOk(conversion.variant)
        /\ \A u \in Variants :
              conversion.ret = UrgencyOk(u) <=> SameIgnoringCase(conversion.s, LevelName[u])
        /\ conversion.ret.tag = "Err" <=>
              \A u \in Variants : ~SameIgnoringCase(conversion.s, LevelName[u])
        /\ conversion.ret.tag \in {"Ok", "Err"}

\* A name written in mixed case has been parsed to its level.
C12_Witness ==
    /\ pc = "urgency_done"
    /\ conversion.s = <<"M", "e", "D", "i", "u", "M">>
    /\ conversion.ret = UrgencyOk("Medium")

\* The line-number lists of the first k sections, one after the other.
RECURSIVE AllLinenos(_, _)
AllLinenos(secs, k) == IF k = 0 THEN <<>> ELSE AllLinenos(secs, k - 1) \o secs[k].linenos

\* The indices changes_sections has to keep: all of them, but index 0 when
\* line 0 is empty (indices count from 0).
KeptIndices(ls) ==
    LET from == IF ls # <<>> /\ ls[1] = <<>> THEN 1 ELSE 0
    IN  [k \in 1..(Len(ls) - from) |-> from + k - 1]

\* C13: section reconstruction.  When changes_sections has returned, the
\* line-number lists of the returned sections, concatenated in section
\* order, are strictly increasing and hold every index 0..n-1 exactly once,
\* except index 0 when line 0 is empty.
C13_SectionReconstruction ==
    pc = "sections_done" =>
        LET all == AllLinenos(ret, Len(ret))
        IN  /\ \A a, b \in 1..Len(all) : a < b => all[a] < all[b]
            /\ all = KeptIndices(changes)

\* A list with an empty line 0 has been split into two or more sections.
C13_Witness ==
    /\ pc = "sections_done"
    /\ Len(changes) >= 4
    /\ changes[1] = <<>>
    /\ Len(ret) >= 2

\* The text of the line with index n.
LineAt(n) == changes[n + 1]

\* C14: author headers delimit sections.  When changes_sections has returned:
\* a section with author Some(title) begins with the index of a line
\* '[ title ]' and holds no other header line; a section with author None is
\* the first one and holds no header line; every header line begins a
\* section; every change group lies within the line numbers of its own
\* section, so a group pending at a header was closed into the section before
\* it; and a blank line right before a header is the last line of the section
\* that precedes the header's section.
C14_AuthorHeaders ==
    pc = "sections_done" =>
        /\ \A k \in 1..Len(ret) :
              /\ ret[k].linenos # <<>>
              /\ IF ret[k].title = None
                 THEN /\ k = 1
                      /\ \A a \in 1..Len(ret[k].linenos) :
                            ~is_author_header(LineAt(ret[k].linenos[a]))
                 ELSE /\ LineAt(ret[k].linenos[1]) =
                            <<"[", " ">> \o ret[k].title.val \o <<" ", "]">>
                      /\ \A a \in 2..Len(ret[k].linenos) :
                            ~is_author_header(LineAt(ret[k].linenos[a]))
              /\ \A g \in 1..Len(ret[k].changes) :
                    /\ ret[k].changes[g] # <<>>
                    /\ \A e \in 1..Len(ret[k].changes[g]) :
                          /\ \E a \in 1..Len(ret[k].linenos) :
                                ret[k].linenos[a] = ret[k].changes[g][e].lineno
                          /\ ret[k].changes[g][e].line = LineAt(ret[k].changes[g][e].lineno)
        /\ \A n \in 0..(Len(changes) - 1) :
              is_author_header(LineAt(n)) =>
                  \E k \in 1..Len(ret) : ret[k].linenos[1] = n
        /\ \A n \in 1..(Len(changes) - 2) :
              (LineAt(n) = <<>> /\ is_author_header(LineAt(n + 1))) =>
                  \E k \in 1..(Len(ret) - 1) :
                      /\ Last(ret[k].linenos) = n
                      /\ ret[k + 1].linenos[1] = n + 1

\* A change group and a blank line before the first header went to a section
\* without author, and the header opened a section that has a change.
C14_Witness ==
    /\ pc = "sections_done"
    /\ Len(ret) = 2
    /\ ret[1].title = None
    /\ ret[1].changes # <<>>
    /\ LineAt(Last(ret[1].linenos)) = <<>>
    /\ ret[2].title = Some(<<"A">>)
    /\ ret[2].changes # <<>>

\* C15 as claimed: the normalizer is idempotent.  When
\* strip_for_commit_message has been applied to its own result, the second
\* result is the first one.
C15_Idempotent == pc = "restripped" => stripped = changes

\* A line that begins with a bullet and a space.
BeginsWithBullet(line) ==
    Len(line) >= 2 /\ line[1] \in {"*", "+", "-"} /\ line[2] = " "

\* C15 as amended: applying strip_for_commit_message to its own result gives
\* that result again, except exactly when the result is a single line that
\* is empty or begins with a bullet and a space.
C15_IdempotentUnlessBullet ==
    pc = "restripped" =>
        (stripped = changes <=>
            ~(Len(changes) = 1 /\ (changes[1] = <<>> \/ BeginsWithBullet(changes[1]))))

\* A result of two or more lines, one of them beginning with a bullet, has
\* been normalized again.
C15_Witness ==
    /\ pc = "restripped"
    /\ Len(changes) >= 2
    /\ \E k \in 1..Len(changes) : BeginsWithBullet(changes[k])
    /\ stripped = changes

\* The indices of the non-blank lines of a list.
NonBlank(ls) == {k \in 1..Len(ls) : ~is_blank(ls[k])}

\* The lines from the first to the last non-blank line of a list.
Span(ls) ==
    IF NonBlank(ls) = {} THEN <<>>
    ELSE SubSeq(ls, Min(NonBlank(ls)), CHOOSE k \in NonBlank(ls) : \A j \in NonBlank(ls) : j <= k)

\* line is indent followed by rest, and indent is made of spaces and tabs.
IsIndented(line, rest) ==
    \E a \in 0..Len(line) :
        /\ \A j \in 1..a : line[j] \in {" ", "\t"}
        /\ rest = SubSeq(line, a + 1, Len(line))

\* C16: bullets are dropped only for a single item.  When
\* strip_for_commit_message has returned, it returned as many lines as there
\* are from the first to the last non-blank line of its argument; if that is
\* one line, the result is that line without leading whitespace and, when it
\* then begins with a bullet and a space, without the bullet and the
\* whitespace after it; if it is two or more, every returned line is the
\* argument's line without its indentation, bullets kept.
C16_BulletsOnlyForSingle ==
    pc = "stripped" =>
        LET kept == Span(changes)
        IN  /\ Len(stripped) = Len(kept)
            /\ Len(kept) = 1 =>
                  LET t == trim_start(kept[1])
                  IN  stripped[1] = IF BeginsWithBullet(t) THEN trim_start(Tail(t)) ELSE t
            /\ Len(kept) >= 2 =>
                  \A k \in 1..Len(kept) :
                      /\ IsIndented(kept[k], stripped[k])
                      /\ ~starts_with(stripped[k], <<" ", " ">>)
                      /\ ~starts_with(stripped[k], <<"\t">>)

\* Two lines were returned, the first with its indentation removed and its
\* bullet kept.
C16_Witness ==
    /\ pc = "stripped"
    /\ Len(stripped) = 2
    /\ BeginsWithBullet(stripped[1])
    /\ stripped[1] # Span(changes)[1]

\* C17: an address written '<addr>' in the footer lexes to one EMAIL token
\* with both angle brackets.  Right after the lexer has emitted an EMAIL
\* token, its text begins with '<' and ends with '>', and the email accessor
\* of a footer holding the token returns the characters of the input between
\* the two brackets.
C17_EmailBrackets ==
    (lexed # <<>> /\ Last(lexed).kind = "EMAIL") =>
        LET text == Last(lexed).text
        IN  /\ Head(text) = "<"
            /\ Last(text) = ">"
            /\ footer_email(Branch("ENTRY_FOOTER", <<Leaf("EMAIL", text)>>)) =
                  Some(SubSeq(input, pos - Len(text) + 2, pos - 1))

\* C20: two-level indent rule.  Every INDENT token the lexer has emitted is
\* one space or two spaces and is the first token of its line; right after
\* it is emitted the region is Footer for one space and Body for two.
C20_IndentRule ==
    \A i \in 1..Len(lexed) :
        lexed[i].kind = "INDENT" =>
            /\ lexed[i].text \in {<<" ">>, <<" ", " ">>}
            /\ i = 1 \/ is_newline(Last(lexed[i - 1].text))
            /\ i = Len(lexed) =>
                  line_type = IF Len(lexed[i].text) = 1 THEN "Footer" ELSE "Body"

\* C18: ChangeLog::read behaves as strict parsing and does not abort.  read
\* never panics; when it has returned, either parsing recorded no diagnostic
\* and it returned the ChangeLog whose text is the text read, or parsing
\* recorded diagnostics and it returned an error result.
C18_ReadStrict ==
    /\ pc # "unwrap_panic"
    /\ pc = "read" =>
          \/ errors = <<>> /\ result.tag = "Ok" /\ TreeText(result.root) = input
          \/ errors # <<>> /\ result.tag = "Err"

\* C19 as claimed: the footer of an entry is optional.  When from_str has
\* returned on a header followed by blank and body lines and the end of
\* input, no diagnostic was recorded.
C19_FooterOptional ==
    (pc = "done" /\ input \in FooterlessEntries) => errors = <<>>

\* C19 as amended: an entry without footer that ends at the end of input is
\* parsed into one ENTRY without ENTRY_FOOTER holding all of the text, with
\* the single diagnostic "unexpected end of file"; when the header of
\* another entry follows, the first entry is closed without a diagnostic of
\* its own: the tree has two entries, the first holding the text of the
\* footerless entry, and the only diagnostic is that of the last entry.
C19_FooterlessEndOfFile ==
    pc = "done" =>
        /\ input \in FooterlessEntries =>
              /\ errors = <<Msg("unexpected end of file", <<>>)>>
              /\ Len(entries(green_node)) = 1
              /\ footer(entries(green_node)[1]) = NoNode
              /\ TreeText(entries(green_node)[1]) = input
        /\ input \in FollowedEntries =>
              /\ errors = <<Msg("unexpected end of file", <<>>)>>
              /\ Len(entries(green_node)) = 2
              /\ footer(entries(green_node)[1]) = NoNode
              /\ TreeText(entries(green_node)[1]) \o SampleHeaderOnly = input

\* A footerless entry with a change line, followed by another header, has
\* been parsed.
C19_Witness ==
    /\ pc = "done"
    /\ input \in FollowedEntries
    /\ Len(entries(green_node)) = 2
    /\ ChildNodes(entries(green_node)[1], "ENTRY_BODY") # {}
    /\ ChildNodes(entries(green_node)[1], "EMPTY_LINE") # {}

\* C21: every VERSION token the lexer has emitted begins with '(' and ends
\* with ')', has two characters or more and holds no space, ';' or newline;
\* and in every tree parse has returned, every VERSION leaf has two
\* characters or more, so that the version accessor's slice is in range on
\* every entry.
C21_VersionWellFormed ==
    /\ \A i \in 1..Len(lexed) :
          lexed[i].kind = "VERSION" =>
              LET text == lexed[i].text
              IN  /\ Len(text) >= 2
                  /\ Head(text) = "("
                  /\ Last(text) = ")"
                  /\ \A j \in 1..Len(text) : text[j] \notin {" ", ";", "\n", "\r"}
    /\ Returned =>
          /\ \A n \in LeafNodes(green_node) : n.kind = "VERSION" => Len(n.text) >= 2
          /\ \A k \in 1..Len(entries(green_node)) :
                version(entries(green_node)[k]).tag # "panic"

\* A tree whose entry has the shortest VERSION token, '()', has been
\* returned, and the accessor gives the empty text.
C21_Witness ==
    /\ Returned
    /\ Len(entries(green_node)) = 1
    /\ version(entries(green_node)[1]) = Some(<<>>)

\* C22: in the footer region no TEXT token holds a space, a tab, a newline
\* or '<'.
C22_TextNoWhitespace ==
    \A i \in 1..Len(lexed) :
        lexed[i].kind = "TEXT" =>
            \A j \in 1..Len(lexed[i].text) :
                lexed[i].text[j] \notin {" ", "\t", "\n", "\r", "<"}

\* The diagnostics other than the one for the end of input inside an entry.
IsHeaderDiagnostic(e) == e # Msg("unexpected end of file", <<>>)

HeaderDiagnostics == SelectSeq(errors, IsHeaderDiagnostic)

\* C23: metadata is optional in a header.  When parse has returned on the
\* header line 'ab (1.0) u' and a newline, the header was parsed without a
\* diagnostic, its METADATA node is empty, and the accessors return the
\* package, the version text and the distributions.
C23_MetadataOptional ==
    (Returned /\ input = SampleNoMetadata) =>
        /\ HeaderDiagnostics = <<>>
        /\ Len(entries(green_node)) = 1
        /\ LET e == entries(green_node)[1]
               h == header(e)
           IN  /\ h # NoNode
               /\ ChildNodes(h, "METADATA") # {}
               /\ h.children[Min(ChildNodes(h, "METADATA"))].children = <<>>
               /\ package(e) = Some(<<"a", "b">>)
               /\ version(e) = Some(<<"1", ".", "0">>)
               /\ distributions(e) = Some(<<<<"u">>>>)

\* C24: several metadata entries separated by ', '.  When parse has returned
\* on the header line 'ab (1.0) u; u=low, b=1' and a newline, the header was
\* parsed without a diagnostic and metadata() yields (u, low) and (b, 1) in
\* this order.
C24_SeveralMetadata ==
    (Returned /\ input = SampleTwoMetadata) =>
        /\ HeaderDiagnostics = <<>>
        /\ Len(entries(green_node)) = 1
        /\ header(entries(green_node)[1]) # NoNode
        /\ metadata(header(entries(green_node)[1])) =
              <<<<<<"u">>, <<"l", "o", "w">>>>, <<<<"b">>, <<"1">>>>>>

\* C25: the date of a footer line lexes into TEXT and WHITESPACE only.  When
\* the lexer has consumed the footer line
\* ' -- ab <a@b>  Mon, 04 Sep 2023 18:13:45 -0500', it has emitted an EMAIL
\* token, and every token after it up to the NEWLINE that ends the line is
\* TEXT or WHITESPACE.
C25_DateTokens ==
    (input = SampleDatedFooter /\ pos = Len(input)) =>
        /\ \E i \in 1..Len(lexed) : lexed[i].kind = "EMAIL"
        /\ \A i, j \in 1..Len(lexed) :
              (lexed[i].kind = "EMAIL" /\ i < j) =>
                  \/ lexed[j].kind \in {"TEXT", "WHITESPACE"}
                  \/ j = Len(lexed) /\ lexed[j].kind = "NEWLINE"

\* What a line after the header stands for: nothing for a blank line, and
\* for an indented line the characters between the two spaces and the
\* newline.
LineContent(l) == IF l = <<"\n">> THEN <<>> ELSE SubSeq(l, 3, Len(l) - 1)

\* The lists of lines that, put after the header, give the text e.
LinesOf(e) ==
    {ls \in UNION {[1..n -> BodyLines] : n \in 0..MaxBodyLines} :
        SampleHeaderOnly \o Flatten(ls) = e}

\* C26: change_lines yields one string per line after the header.  When
\* parse has returned on a header followed by blank and indented lines, at
\* the end of input or followed by another header, change_lines of the first
\* entry is the list of the contents of those lines, in order: the empty
\* string for a blank line, the rest of the line after the two spaces
\* otherwise; and on the entry with a footer line,
\* 'ab (1.0) u; u=low\n\n  * c\n\n -- ab <a@b>  d, 01 -0\n', it is the three
\* lines before the footer: '', '* c', ''.
C26_ChangeLines ==
    Returned =>
        /\ \A e \in FooterlessEntries :
              input \in {e, e \o SampleHeaderOnly} =>
                  /\ entries(green_node) # <<>>
                  /\ \A ls \in LinesOf(e) :
                        change_lines(entries(green_node)[1]) =
                            [k \in 1..Len(ls) |-> LineContent(ls[k])]
        /\ input = SampleEntry =>
              /\ entries(green_node) # <<>>
              /\ change_lines(entries(green_node)[1]) = <<<<>>, <<"*", " ", "c">>, <<>>>>

\* An entry with a blank line and a line indented by three spaces has been
\* parsed and change_lines gives the empty string and ' c'.
C26_Witness ==
    /\ Returned
    /\ input \in FooterlessEntries
    /\ change_lines(entries(green_node)[1]) = <<<<>>, <<" ", "c">>>>

C28_NoEmptySections ==
    pc = "sections_done" =>
        \A k \in 1..Len(ret) :
            /\ ret[k].changes # <<>>
            /\ \A g \in 1..Len(ret[k].changes) : ret[k].changes[g] # <<>>

\* C28 as amended: every section changes_sections has returned has a line
\* number, and every change group has a line; a section has no change group
\* exactly when none of its lines but a leading author header is non-blank.
C28_NoEmptyLinenos ==
    pc = "sections_done" =>
        \A k \in 1..Len(ret) :
            /\ ret[k].linenos # <<>>
            /\ \A g \in 1..Len(ret[k].changes) : ret[k].changes[g] # <<>>
            /\ ret[k].changes = <<>> <=>
                  \A a \in 1..Len(ret[k].linenos) :
                      \/ LineAt(ret[k].linenos[a]) = <<>>
                      \/ a = 1 /\ ret[k].title # None

\* An author header with no change after it and blank lines before another
\* header have each given a section without change group.
C28_Witness ==
    /\ pc = "sections_done"
    /\ Len(ret) >= 2
    /\ ret[1].title = None
    /\ ret[1].changes = <<>>
    /\ ret[Len(ret)].title # None
    /\ ret[Len(ret)].changes = <<>>

\* The kinds of the nodes the builder has open, outermost first.
OpenKinds == [k \in 1..Len(builder.parents) |-> builder.parents[k].kind]

\* C29: builder stack discipline.  Between the iterations of the loop of
\* Parser::parse only ROOT is open, between those of parse_entry only ROOT
\* and ENTRY, whatever path the header, body and error handling took in
\* between; every open node begins at or after the one that encloses it;
\* ROOT holds everything built; and once the builder has handed out the
\* tree, no node is open and the tree is the single ROOT node.
C29_StackDiscipline ==
    /\ pc \in {"root", "finish"} => OpenKinds = <<"ROOT">>
    /\ pc = "entry" => OpenKinds = <<"ROOT", "ENTRY">>
    /\ pc \in {"root", "entry", "finish"} => builder.parents[1].first_child = 0
    /\ \A k \in 1..Len(builder.parents) :
          /\ builder.parents[k].first_child <= Len(builder.children)
          /\ k > 1 => builder.parents[k - 1].first_child <= builder.parents[k].first_child
    /\ pc \in {"parsed", "done", "read", "unwrap_panic"} =>
          /\ builder.parents = <<>>
          /\ builder.children = <<green_node>>
          /\ ~green_node.leaf
          /\ green_node.kind = "ROOT"

\* A header has left its metadata loop on a missing '=' and the parser is
\* back in the loop of parse_entry.
C29_Witness ==
    /\ pc = "entry"
    /\ \E k \in 1..Len(errors) : errors[k] = Msg("expected equals", <<>>)
    /\ OpenKinds = <<"ROOT", "ENTRY">>

(***************************************************************************)
(* The parser on a footer line                                             *)
(*                                                                         *)
(* parse_entry calls parse_entry_footer on the token INDENT ' -- '.  The   *)
(* lexer of lex.rs does not produce that token from any text, so the       *)
(* footer parser is examined on token vectors: the tokens of a header      *)
(* line as lex returns them, the footer indent, and every sequence of up   *)
(* to MaxFooterTokens footer tokens.                                       *)
(***************************************************************************)
MaxFooterTokens == 3

\* lex: the tokens next_token returns until the text is used up.
RECURSIVE collect(_, _, _)
collect(s, p, lt) ==
    IF p >= Len(s) THEN <<>>
    ELSE LET r == next_token(s, p, lt)
         IN  IF r.abort THEN <<>>
             ELSE <<r.tok>> \o collect(s, r.pos, r.line_type)

lex(s) == collect(s, 0, "None")

\* The token kinds the loops of parse_entry_footer tell apart, one token of
\* each.
FooterTokens ==
    {Tok("TEXT", <<"a">>), Tok("WHITESPACE", <<" ">>), Tok("EMAIL", <<"<", "a">>),
     Tok("NEWLINE", <<"\n">>), Tok("DASHES", <<"-">>)}

\* The tokens of the footer of test_parse_simple after the indent,
\* shortened:  ab <a@b>  d\n
SampleFooterTokens ==
    <<Tok("TEXT", <<"a", "b">>), Tok("WHITESPACE", <<" ">>),
      Tok("EMAIL", <<"<", "a", "@", "b">>), Tok("WHITESPACE", <<" ", " ">>),
      Tok("TEXT", <<"d">>), Tok("NEWLINE", <<"\n">>)>>

FooterRests ==
    UNION {[1..n -> FooterTokens] : n \in 0..MaxFooterTokens} \cup {SampleFooterTokens}

FooterVectors ==
    {lex(SampleUrgency) \o <<Tok("INDENT", FooterStart)>> \o rest : rest \in FooterRests}

\* Parser::parse has built the Parser on the reversed tokens and opened
\* ROOT.
InitFooter ==
    /\ \E toks \in FooterVectors :
         LET P == start_node(ParserState(Reverse(toks), EmptyBuilder, <<>>), "ROOT")
         IN  /\ input = TokenTexts(toks)
             /\ pos = Len(TokenTexts(toks))
             /\ lexed = toks
             /\ tokens = P.tokens
             /\ builder = P.builder
             /\ errors = P.errors
    /\ line_type = "None"
    /\ green_node = NoNode
    /\ result = NoResult
    /\ pc = "root"
    /\ IdleAux

NextFooter ==
    \/ ParseRootStep
    \/ ParseEntryStep
    \/ ParseFinish
    \/ FromStr
    \/ Read

SpecFooter == InitFooter /\ [][NextFooter]_vars

====
